---- MODULE Spec2Model ----
(***************************************************************************)
(* Model of docs/repo-release-notes-generator.py (Python 2): the label     *)
(* fetcher getLabels, the text sanitizer bodyBreaker, the table renderer   *)
(* generateTable, the contributor ranker generateList, the driver main and *)
(* the command-line block under __main__.                                  *)
(*                                                                         *)
(* Text is modelled as a sequence of one-character strings, so that        *)
(* slicing, splitting, replacing and encoding are computed, not assumed.   *)
(* An uncaught Python exception ends the process: pc = "raised".           *)
(***************************************************************************)
EXTENDS Integers, Sequences, FiniteSets, TLC

VARIABLES
    pc,            \* position of the process: args, mode, loop, rows, list, done, raised
    exc,           \* the uncaught exception, "" when none
    labels_check,  \* args.list
    labels_all,    \* truthiness of args.all
    limitIsStr,    \* TRUE when --limit was given (argparse keeps it a str)
    labels,        \* the global labels
    labelOutput,   \* getLabels: the parsed response
    repoIssues,    \* the issues the remote service can return
    pageSize,      \* the most issues one response holds
    li,            \* main: number of labels the for loop has taken
    output,        \* generateTable: the parsed response
    idx,           \* generateTable: number of loop iterations completed
    total,         \* generateTable: total
    contributors,  \* generateTable: the user -> user_url dict
    c,             \* the Counter: counts and key insertion order
    out,           \* standard output, one record per printed line
    sanPc,         \* sanitizer harness: call, ret, idle
    sanBody,       \* sanitizer harness: the body argument
    sanWidth,      \* sanitizer harness: the width argument
    sanResult      \* sanitizer harness: the returned string

progVars == <<pc, exc, labels_check, labels_all, limitIsStr, labels, labelOutput,
              repoIssues, pageSize, li, output, idx, total, contributors, c, out>>
sanVars == <<sanPc, sanBody, sanWidth, sanResult>>
vars == <<progVars, sanVars>>

----------------------------------------------------------------------------
(* Bounds of the model *)

MaxLabels == 2
MaxIssues == 2
MaxTableIssues == 3
MaxLen == 4
MaxWidth == 2

(* Constants of the program *)

DefaultLimit == 180
TitleWidth == 25
BodyWidth == 50

----------------------------------------------------------------------------
(* Text *)

SeqsUpTo(S, n) == UNION {[1..k -> S] : k \in 0..n}

Rep(ch, n) == [i \in 1..n |-> ch]

Min(a, b) == IF a < b THEN a ELSE b

\* s[0:n] for n >= 0
Take(s, n) == SubSeq(s, 1, Min(n, Len(s)))

Drop(s, n) == SubSeq(s, n + 1, Len(s))

\* the backtick character, U+0060
Backtick == "U+0060"

\* what str.split() with no argument splits on: space, newline, carriage
\* return, tab, form feed and vertical tab (U+000B)
Whitespace == {" ", "\n", "\r", "\t", "\f", "U+000B"}

\* s.replace(ch, to) for a one-character ch, computed by halves
RECURSIVE Replace(_, _, _)
Replace(s, ch, to) ==
    IF s = <<>> THEN <<>>
    ELSE IF Len(s) = 1 THEN (IF s[1] = ch THEN to ELSE s)
    ELSE Replace(Take(s, Len(s) \div 2), ch, to)
             \o Replace(Drop(s, Len(s) \div 2), ch, to)

\* The UTF-8 bytes of one character: ASCII is one byte, U+00E9 is two.
Utf8Char(ch) == IF ch = "U+00E9" THEN <<"0xC3", "0xA9">> ELSE <<ch>>

\* unicode.encode("utf-8"), computed by halves
RECURSIVE Encode(_)
Encode(s) ==
    IF s = <<>> THEN <<>>
    ELSE IF Len(s) = 1 THEN Utf8Char(s[1])
    ELSE Encode(Take(s, Len(s) \div 2)) \o Encode(Drop(s, Len(s) \div 2))

\* length of the leading run of non-whitespace characters
WordLen(s) ==
    IF \E i \in 1..Len(s) : s[i] \in Whitespace
    THEN (CHOOSE i \in 1..Len(s) :
              s[i] \in Whitespace /\ \A j \in 1..(i - 1) : s[j] \notin Whitespace) - 1
    ELSE Len(s)

\* body.split()
RECURSIVE Split(_)
Split(s) ==
    IF s = <<>> THEN <<>>
    ELSE IF Head(s) \in Whitespace THEN Split(Tail(s))
    ELSE <<Take(s, WordLen(s))>> \o Split(Drop(s, WordLen(s)))

LowerCase == <<"a", "b", "c", "d", "e", "f", "g", "h", "i", "j", "k", "l", "m",
               "n", "o", "p", "q", "r", "s", "t", "u", "v", "w", "x", "y", "z">>
UpperCase == <<"A", "B", "C", "D", "E", "F", "G", "H", "I", "J", "K", "L", "M",
               "N", "O", "P", "Q", "R", "S", "T", "U", "V", "W", "X", "Y", "Z">>

IndexIn(alphabet, ch) == CHOOSE i \in 1..Len(alphabet) : alphabet[i] = ch

ToUpper(ch) ==
    IF \E i \in 1..Len(LowerCase) : LowerCase[i] = ch
    THEN UpperCase[IndexIn(LowerCase, ch)] ELSE ch

ToLower(ch) ==
    IF \E i \in 1..Len(UpperCase) : UpperCase[i] = ch
    THEN LowerCase[IndexIn(UpperCase, ch)] ELSE ch

\* str.capitalize(): first character upper-cased, the rest lower-cased
Capitalize(s) ==
    IF s = <<>> THEN <<>>
    ELSE <<ToUpper(Head(s))>> \o [i \in 1..(Len(s) - 1) |-> ToLower(s[i + 1])]

----------------------------------------------------------------------------
(* bodyBreaker *)

\* a variant that also cuts a word exactly as long as width
TrimWordAtWidth(word, width) ==
    IF Len(word) >= width THEN Take(word, width) \o <<".", ".">> ELSE word

\* a variant that keeps one character too many of a long word
TrimWordOffByOne(word, width) ==
    IF Len(word) > width THEN Take(word, width + 1) \o <<".", ".">> ELSE word

\* the if of the loop body: a word longer than width is cut and marked
TrimWord(word, width) ==
    IF Len(word) > width THEN Take(word, width) \o <<".", ".">> ELSE word

\* the for loop: body += word + " "
RECURSIVE Rebuild(_, _)
Rebuild(parts, width) ==
    IF parts = <<>> THEN <<>>
    ELSE TrimWord(Head(parts), width) \o <<" ">> \o Rebuild(Tail(parts), width)

bodyBreaker(body, width) == Rebuild(Split(body), width)

----------------------------------------------------------------------------
(* The remote service: parsed JSON responses *)

\* A JSON object with a top-level message (and a documentation_url).
Dict(message) == [kind |-> "dict", message |-> message, items |-> <<>>]

\* A JSON array.
List(items) == [kind |-> "list", message |-> "", items |-> items]

NotFound == Dict("Not Found")
RateLimited == Dict("API rate limit exceeded")

\* len(output): a dict counts its keys, message and documentation_url
PyLen(o) == IF o.kind = "dict" THEN 2 ELSE Len(o.items)

\* a JSON string, and JSON null
Str(text) == [none |-> FALSE, text |-> text]
None == [none |-> TRUE, text |-> <<>>]

Alice == <<"a", "l", "i", "c", "e">>
Bob == <<"b", "o", "b">>

ProfileUrl(login) == <<"https://github.com/">> \o login

MkIssue(n, title, body, login) ==
    [title |-> title, html_url |-> n, body |-> body,
     user |-> [login |-> login, html_url |-> ProfileUrl(login)]]

LabelNames == {<<"b", "U", "G">>, <<"d", "o", "c", "s">>}

LabelResponses ==
    {NotFound, RateLimited}
        \cup {List(s) : s \in SeqsUpTo([name : LabelNames], MaxLabels)}

IssueResponses(issues, page) ==
    {NotFound, RateLimited} \cup {List(s) : s \in SeqsUpTo(issues, page)}

ShortTitle == <<"f", "i", "x">>
\* two lines, a carriage return, and a word of 13 characters but 26 bytes
LongTitle == <<"a", "\r", "\n">> \o Rep("U+00E9", 13)

\* short words, every tenth character a space
Words(n) == [i \in 1..n |-> IF i % 10 = 0 THEN " " ELSE "a"]

SimpleIssues ==
    {MkIssue("issues/1", ShortTitle, Str(<<"a", "b">>), Alice),
     MkIssue("issues/2", ShortTitle, Str(<<>>), Bob)}

RichIssues ==
    {MkIssue("issues/3", ShortTitle, None, Alice),
     MkIssue("issues/4", LongTitle, Str(<<Backtick, "\n", Backtick>>), Bob),
     MkIssue("issues/5", ShortTitle, Str(Words(DefaultLimit)), Alice),
     MkIssue("issues/6", ShortTitle, Str(Words(DefaultLimit + 1)), Bob),
     MkIssue("issues/7", ShortTitle, Str(Rep("a", DefaultLimit + 1)), Alice),
     MkIssue("issues/8", ShortTitle,
             Str(Rep("a", BodyWidth - 1) \o <<".", "b">>), Bob),
     MkIssue("issues/9", ShortTitle, Str(<<"a", ".", ".", ".">>), Alice)}

----------------------------------------------------------------------------
(* getLabels *)

\* The whole function on a parsed response: what it prints, and either the
\* list it returns or the exception it raises.  output["message"] on a list
\* is a TypeError; on a dict with another message the loop iterates the
\* dict's keys, and result["name"] on a string is a TypeError.
getLabels(o) ==
    IF o.kind = "list"
    THEN [raised |-> TRUE, exc |-> "TypeError", printed |-> <<>>, labels |-> <<>>]
    ELSE IF o.message = "Not Found"
    THEN [raised |-> FALSE, exc |-> "",
          printed |-> <<[kind |-> "notFound"]>>, labels |-> <<>>]
    ELSE [raised |-> TRUE, exc |-> "TypeError", printed |-> <<>>, labels |-> <<>>]

----------------------------------------------------------------------------
(* generateTable *)

BugLabel == <<"B", "u", "g">>
BugFixLabel == <<"B", "u", "g", " ", "F", "i", "x">>

\* label = params.get("labels").capitalize(), Bug becomes Bug Fix
TableLabel(label) ==
    IF Capitalize(label) = BugLabel THEN BugFixLabel ELSE Capitalize(label)

\* the title column
RenderTitle(title) ==
    bodyBreaker(Replace(Replace(Encode(title), "\n", <<" ">>), "\r", <<>>),
                TitleWidth)

\* body[0:limit] encoded, line breaks and backticks removed
CutBody(text, limit) ==
    Replace(Replace(Replace(Encode(Take(text, limit)), "\n", <<" ">>),
                    "\r", <<>>), Backtick, <<>>)

\* the ellipsis of a body longer than limit
MarkBody(text, limit) ==
    IF Len(text) > limit
    THEN CutBody(text, limit) \o <<".", ".", ".">>
    ELSE CutBody(text, limit)

NotApplicable == <<"n", "/", "a">>

\* the summary column of a body that is a string, for an integer limit
RenderBody(text, limit) ==
    LET body == bodyBreaker(MarkBody(text, limit), BodyWidth)
    IN IF Len(body) = 0 THEN NotApplicable ELSE body

\* result["body"][0:limit] raises TypeError when the body is None, and when
\* limit is the str argparse stores for --limit
SliceRaises(result, limStr) == result.body.none \/ limStr

\* the printed table row
Row(result, limit) ==
    [kind |-> "row",
     title |-> RenderTitle(result.title),
     url |-> result.html_url,
     body |-> RenderBody(result.body.text, limit),
     user |-> Encode(result.user.login),
     user_url |-> result.user.html_url]

\* contributors[user] = user_url
Upsert(dir, user, user_url) ==
    [u \in DOMAIN dir \cup {user} |-> IF u = user THEN user_url ELSE dir[u]]

EmptyDict == [u \in {} |-> <<>>]

\* Counter(): the counts, and the keys in the order they were inserted
EmptyCounter == [cnt |-> [u \in {} |-> 0], ins |-> <<>>]

\* a variant that records a user without counting the repeats
IncrementOnce(ctr, user) ==
    IF user \in DOMAIN ctr.cnt
    THEN ctr
    ELSE [cnt |-> [u \in DOMAIN ctr.cnt \cup {user} |->
                      IF u = user THEN 1 ELSE ctr.cnt[u]],
          ins |-> Append(ctr.ins, user)]

\* c[user] += 1
Increment(ctr, user) ==
    IF user \in DOMAIN ctr.cnt
    THEN [ctr EXCEPT !.cnt[user] = @ + 1]
    ELSE [cnt |-> [u \in DOMAIN ctr.cnt \cup {user} |->
                      IF u = user THEN 1 ELSE ctr.cnt[u]],
          ins |-> Append(ctr.ins, user)]

----------------------------------------------------------------------------
(* generateList *)

\* a variant without the special case for Bug
ListLabelPlain(label) == Capitalize(label)

\* label = label.capitalize(), Bug becomes Bug Fix
ListLabel(label) ==
    IF Capitalize(label) = BugLabel THEN BugFixLabel ELSE Capitalize(label)

\* the orders in which a Python 2 dict may iterate its keys
IterOrders(keys) ==
    {s \in [1..Cardinality(keys) -> keys] : \A i, j \in DOMAIN s : s[i] = s[j] => i = j}

\* a variant that sorts ascending: u goes after every element whose count is
\* not larger
InsertAsc(sorted, u, cnt) ==
    LET k == IF \E i \in 1..Len(sorted) : cnt[sorted[i]] > cnt[u]
             THEN (CHOOSE i \in 1..Len(sorted) :
                       cnt[sorted[i]] > cnt[u]
                       /\ \A j \in 1..(i - 1) : cnt[sorted[j]] <= cnt[u]) - 1
             ELSE Len(sorted)
    IN SubSeq(sorted, 1, k) \o <<u>> \o SubSeq(sorted, k + 1, Len(sorted))

\* one step of a stable descending sort: u goes after every element whose
\* count is not smaller
InsertDesc(sorted, u, cnt) ==
    LET k == IF \E i \in 1..Len(sorted) : cnt[sorted[i]] < cnt[u]
             THEN (CHOOSE i \in 1..Len(sorted) :
                       cnt[sorted[i]] < cnt[u]
                       /\ \A j \in 1..(i - 1) : cnt[sorted[j]] >= cnt[u]) - 1
             ELSE Len(sorted)
    IN SubSeq(sorted, 1, k) \o <<u>> \o SubSeq(sorted, k + 1, Len(sorted))

\* sorted(items, key=itemgetter(1), reverse=True) on the keys in iteration order
RECURSIVE SortedDesc(_, _)
SortedDesc(s, cnt) ==
    IF s = <<>> THEN <<>>
    ELSE InsertDesc(SortedDesc(SubSeq(s, 1, Len(s) - 1), cnt), s[Len(s)], cnt)

\* counter.most_common(), for one iteration order of the counter
MostCommon(ctr, order) ==
    LET users == SortedDesc(order, ctr.cnt)
    IN [i \in 1..Len(users) |-> <<users[i], ctr.cnt[users[i]]>>]

\* the printed links, one per ranked user
Links(ranked, dir) ==
    [i \in 1..Len(ranked) |-> [user |-> ranked[i][1], url |-> dir[ranked[i][1]]]]

----------------------------------------------------------------------------
(* The process *)

LabelLists == SeqsUpTo(LabelNames, MaxLabels) \ {<<>>}

IdleSan ==
    /\ sanPc = "idle"
    /\ sanBody = <<>>
    /\ sanWidth = 0
    /\ sanResult = <<>>

\* after parse_args: the flags, --labels (nargs="+", at least one label),
\* and whether --limit was given
Start(flagValues, labelLists, issues, page) ==
    /\ pc = "args"
    /\ exc = ""
    /\ labels_check \in flagValues
    /\ labels_all \in flagValues
    /\ limitIsStr \in BOOLEAN
    /\ labels \in labelLists
    /\ labelOutput = List(<<>>)
    /\ repoIssues = issues
    /\ pageSize = page
    /\ li = 0
    /\ output = List(<<>>)
    /\ idx = 0
    /\ total = 0
    /\ contributors = EmptyDict
    /\ c = EmptyCounter
    /\ out = <<>>
    /\ IdleSan

Init == Start(BOOLEAN, LabelLists, SimpleIssues, MaxIssues)

\* if labels_check or labels_all: labels = getLabels(url_labels)
FetchLabels ==
    /\ pc = "args"
    /\ labels_check \/ labels_all
    /\ \E o \in LabelResponses :
        LET r == getLabels(o)
        IN /\ labelOutput' = o
           /\ out' = out \o r.printed
           /\ exc' = r.exc
           /\ IF r.raised
              THEN pc' = "raised" /\ UNCHANGED labels
              ELSE pc' = "mode" /\ labels' = r.labels
    /\ UNCHANGED <<labels_check, labels_all, limitIsStr, repoIssues, pageSize, li, output,
                   idx, total, contributors, c, sanVars>>

\* the branch of the final if not yet taken
AtMode == pc = "mode" \/ (pc = "args" /\ ~(labels_check \/ labels_all))

\* if labels_check: the two prints
ListMode ==
    /\ AtMode
    /\ labels_check
    /\ out' = out \o <<[kind |-> "labelsListed", labels |-> labels],
                       [kind |-> "listHint"]>>
    /\ pc' = "done"
    /\ UNCHANGED <<exc, labels_check, labels_all, limitIsStr, labels, labelOutput,
                   repoIssues, pageSize, li, output, idx, total, contributors, c, sanVars>>

\* else: main(), up to its for loop
ReportMode ==
    /\ AtMode
    /\ ~labels_check
    /\ out' = Append(out, [kind |-> "pulling", labels |-> labels])
    /\ li' = 0
    /\ pc' = "loop"
    /\ UNCHANGED <<exc, labels_check, labels_all, limitIsStr, labels, labelOutput,
                   repoIssues, pageSize, output, idx, total, contributors, c, sanVars>>

\* main takes the next label with a fresh Counter and calls generateTable,
\* which loads the response and prints the heading and the table header
TableStart ==
    /\ pc = "loop"
    /\ li < Len(labels)
    /\ li' = li + 1
    /\ c' = EmptyCounter
    /\ \E o \in IssueResponses(repoIssues, pageSize) : output' = o
    /\ total' = 0
    /\ contributors' = EmptyDict
    /\ idx' = 0
    /\ out' = out \o <<[kind |-> "tableHeading", label |-> TableLabel(labels[li + 1])],
                       [kind |-> "tableHeader"]>>
    /\ pc' = "rows"
    /\ UNCHANGED <<exc, labels_check, labels_all, limitIsStr, labels, labelOutput,
                   repoIssues, pageSize, sanVars>>

\* one iteration of for result in output.  Iterating a dict yields its keys,
\* and result["title"] on a string raises TypeError.
TableRow ==
    /\ pc = "rows"
    /\ idx < PyLen(output)
    /\ IF output.kind = "dict" \/ SliceRaises(output.items[idx + 1], limitIsStr)
       THEN /\ pc' = "raised"
            /\ exc' = "TypeError"
            /\ UNCHANGED <<idx, total, contributors, c, out>>
       ELSE LET result == output.items[idx + 1]
                row == Row(result, DefaultLimit)
            IN /\ contributors' = Upsert(contributors, row.user, row.user_url)
               /\ c' = Increment(c, row.user)
               /\ out' = Append(out, row)
               /\ total' = total + 1
               /\ idx' = idx + 1
               /\ UNCHANGED <<pc, exc>>
    /\ UNCHANGED <<labels_check, labels_all, limitIsStr, labels, labelOutput,
                   repoIssues, pageSize, li, output, sanVars>>

\* after the loop: the count line, and the return to main
TableTotal ==
    /\ pc = "rows"
    /\ idx = PyLen(output)
    /\ out' = Append(out, [kind |-> "total", total |-> total,
                           returned |-> PyLen(output)])
    /\ pc' = "list"
    /\ UNCHANGED <<exc, labels_check, labels_all, limitIsStr, labels, labelOutput,
                   repoIssues, pageSize, li, output, idx, total, contributors, c, sanVars>>

\* generateList(contributors, this_counter, label); contributors[user] raises
\* KeyError for a user the directory lacks
GenerateList ==
    /\ pc = "list"
    /\ \E order \in IterOrders(DOMAIN c.cnt) :
        LET ranked == MostCommon(c, order)
        IN IF \E i \in 1..Len(ranked) : ranked[i][1] \notin DOMAIN contributors
           THEN /\ out' = Append(out, [kind |-> "listHeading",
                                       label |-> ListLabel(labels[li])])
                /\ pc' = "raised"
                /\ exc' = "KeyError"
           ELSE /\ out' = out \o <<[kind |-> "listHeading",
                                    label |-> ListLabel(labels[li])],
                                   [kind |-> "contributors",
                                    links |-> Links(ranked, contributors)]>>
                /\ pc' = "loop"
                /\ UNCHANGED exc
    /\ UNCHANGED <<labels_check, labels_all, limitIsStr, labels, labelOutput,
                   repoIssues, pageSize, li, output, idx, total, contributors, c, sanVars>>

\* the for loop of main is exhausted
MainReturn ==
    /\ pc = "loop"
    /\ li = Len(labels)
    /\ pc' = "done"
    /\ UNCHANGED <<exc, labels_check, labels_all, limitIsStr, labels, labelOutput,
                   repoIssues, pageSize, li, output, idx, total, contributors, c, out, sanVars>>

Next ==
    \/ FetchLabels
    \/ ListMode
    \/ ReportMode
    \/ TableStart
    \/ TableRow
    \/ TableTotal
    \/ GenerateList
    \/ MainReturn

Spec == Init /\ [][Next]_vars

----------------------------------------------------------------------------
(* One report on the default label, over a richer set of issues *)

InitTable == Start({FALSE}, {<<<<"b", "u", "g">>>>}, RichIssues, MaxTableIssues)

NextTable ==
    \/ ReportMode
    \/ TableStart
    \/ TableRow
    \/ TableTotal
    \/ GenerateList
    \/ MainReturn

SpecTable == InitTable /\ [][NextTable]_vars

----------------------------------------------------------------------------
(* bodyBreaker alone, on every short string and small width *)

SanChars == {"a", ".", " ", "\n"}

InitSan ==
    /\ pc = "idle"
    /\ exc = ""
    /\ labels_check = FALSE
    /\ labels_all = FALSE
    /\ limitIsStr = FALSE
    /\ labels = <<>>
    /\ labelOutput = List(<<>>)
    /\ repoIssues = {}
    /\ pageSize = 0
    /\ li = 0
    /\ output = List(<<>>)
    /\ idx = 0
    /\ total = 0
    /\ contributors = EmptyDict
    /\ c = EmptyCounter
    /\ out = <<>>
    /\ sanPc = "call"
    /\ sanBody \in SeqsUpTo(SanChars, MaxLen)
    /\ sanWidth \in 0..MaxWidth
    /\ sanResult = <<>>

CallBodyBreaker ==
    /\ sanPc = "call"
    /\ sanResult' = bodyBreaker(sanBody, sanWidth)
    /\ sanPc' = "ret"
    /\ UNCHANGED <<sanBody, sanWidth, progVars>>

NextSan == CallBodyBreaker

SpecSan == InitSan /\ [][NextSan]_vars

----------------------------------------------------------------------------
(* Reading the state and the output *)

Ellipsis == <<".", ".", ".">>

EndsWith(s, suffix) ==
    Len(s) >= Len(suffix) /\ SubSeq(s, Len(s) - Len(suffix) + 1, Len(s)) = suffix

\* s without its trailing spaces
RStrip(s) ==
    LET keep == {n \in 0..Len(s) : \A i \in (n + 1)..Len(s) : s[i] = " "}
    IN SubSeq(s, 1, CHOOSE n \in keep : \A m \in keep : n <= m)

\* the pieces of s between spaces
RECURSIVE SpaceTokens(_)
SpaceTokens(s) ==
    LET spaces == {i \in 1..Len(s) : s[i] = " "}
        first == CHOOSE i \in spaces : \A j \in spaces : i <= j
    IN IF spaces = {} THEN (IF s = <<>> THEN <<>> ELSE <<s>>)
       ELSE (IF first = 1 THEN <<>> ELSE <<SubSeq(s, 1, first - 1)>>)
                \o SpaceTokens(SubSeq(s, first + 1, Len(s)))

\* tokens joined by single spaces
RECURSIVE JoinSpaces(_)
JoinSpaces(tokens) ==
    IF tokens = <<>> THEN <<>>
    ELSE IF Len(tokens) = 1 THEN tokens[1]
    ELSE tokens[1] \o <<" ">> \o JoinSpaces(Tail(tokens))

\* positions of the output lines of one kind, and the i-th of them
PosSet(kind) == {p \in 1..Len(out) : out[p].kind = kind}
NthPos(kind, i) ==
    CHOOSE p \in PosSet(kind) : Cardinality({q \in PosSet(kind) : q < p}) = i - 1

Listed == PosSet("labelsListed") # {}
Reported == PosSet("pulling") # {}

\* the lines of section i: from its table heading up to the next one
SectionLines(i) ==
    LET from == NthPos("tableHeading", i)
        to == IF i < Cardinality(PosSet("tableHeading"))
              THEN NthPos("tableHeading", i + 1) - 1 ELSE Len(out)
    IN SubSeq(out, from, to)

IsRow(line) == line.kind = "row"
IsTotal(line) == line.kind = "total"
IsContributors(line) == line.kind = "contributors"

RowsOf(lines) == SelectSeq(lines, IsRow)

\* the rows of the section being printed
CurrentRows ==
    IF li = 0 \/ PosSet("tableHeading") = {} THEN <<>>
    ELSE RowsOf(SectionLines(Cardinality(PosSet("tableHeading"))))

Range(f) == {f[x] : x \in DOMAIN f}

RECURSIVE SumOver(_, _)
SumOver(f, keys) ==
    IF keys = {} THEN 0
    ELSE LET k == CHOOSE x \in keys : TRUE IN f[k] + SumOver(f, keys \ {k})

\* the issues of the current response the loop has completed
Done(i) == output.kind = "list" /\ i \in 1..idx

AuthorOf(i) == output.items[i].user.login

----------------------------------------------------------------------------
(* C1 *)

\* C1: in one pass of generateTable an issue whose body is null does not
\* fail the pass: the loop does not raise at it, its row carries the
\* placeholder n/a, and every author's tally is the number of that author's
\* issues taken so far, the null-bodied ones included.
C1_NullBodyTolerated ==
    (li >= 1 /\ output.kind = "list" /\ ~limitIsStr) =>
        /\ ~(pc = "raised" /\ idx < Len(output.items)
               /\ output.items[idx + 1].body.none)
        /\ \A i \in 1..idx :
               output.items[i].body.none =>
                   /\ Len(CurrentRows) >= i
                   /\ CurrentRows[i].body = NotApplicable
        /\ \A i \in 1..idx :
               /\ AuthorOf(i) \in DOMAIN c.cnt
               /\ c.cnt[AuthorOf(i)]
                      = Cardinality({j \in 1..idx : AuthorOf(j) = AuthorOf(i)})

----------------------------------------------------------------------------
(* C2 *)

\* C2: when the issue query of a label returns the Not-Found object the run
\* does not raise, and a run that ends has printed a table and a contributor
\* list for every requested label.
C2_NotFoundTolerated ==
    (li >= 1 /\ output = NotFound) =>
        /\ pc # "raised"
        /\ pc = "done" =>
               /\ Cardinality(PosSet("total")) = Len(labels)
               /\ Cardinality(PosSet("contributors")) = Len(labels)

----------------------------------------------------------------------------
(* C3 *)

LabelsFetched == pc # "args" /\ (labels_check \/ labels_all)

\* C3: for a repository that exists (the response is an array of label
\* objects) getLabels returns the names of the label objects in response
\* order; for the Not-Found object it returns the empty list.
C3_LabelNamesReturned ==
    LabelsFetched =>
        /\ labelOutput.kind = "list" =>
               /\ ~(pc = "raised" /\ ~Reported)
               /\ labels = [i \in 1..Len(labelOutput.items) |->
                               labelOutput.items[i].name]
        /\ labelOutput = NotFound => labels = <<>>

----------------------------------------------------------------------------
(* C4 *)

\* C4: an invocation that has ended ran exactly one of label-listing mode
\* and report mode; with --list and a repository that does not exist the
\* not-found message is printed and report mode is not entered.
C4_ExactlyOneMode ==
    /\ pc \in {"done", "raised"} => (Listed /\ ~Reported) \/ (Reported /\ ~Listed)
    /\ (labels_check /\ LabelsFetched /\ labelOutput = NotFound) =>
           /\ PosSet("notFound") # {}
           /\ ~Reported

----------------------------------------------------------------------------
(* C5 *)

\* which line may follow which in a report
MayFollow(a, b) ==
    \/ a = "notFound" /\ b = "pulling"
    \/ a = "pulling" /\ b = "tableHeading"
    \/ a = "tableHeading" /\ b = "tableHeader"
    \/ a = "tableHeader" /\ b \in {"row", "total"}
    \/ a = "row" /\ b \in {"row", "total"}
    \/ a = "total" /\ b = "listHeading"
    \/ a = "listHeading" /\ b = "contributors"
    \/ a = "contributors" /\ b = "tableHeading"

\* the heading a label is shown under
Shown(label) ==
    IF Capitalize(label) = <<"B", "u", "g">>
    THEN <<"B", "u", "g", " ", "F", "i", "x">>
    ELSE Capitalize(label)

\* C5: main emits the sections in the order of the label list, each one the
\* table of its label (heading, header, rows, count line) followed by the
\* contributor list of the same label before anything of the next label;
\* each section counts its own rows and lists exactly the authors of its own
\* rows; a label that capitalizes to Bug is headed Bug Fix in both headings;
\* and a run that ends has emitted one section per label.
C5_SectionsInOrder ==
    Reported =>
        /\ \A p \in 1..(Len(out) - 1) : MayFollow(out[p].kind, out[p + 1].kind)
        /\ Cardinality(PosSet("tableHeading")) <= Len(labels)
        /\ \A i \in 1..Cardinality(PosSet("tableHeading")) :
               LET lines == SectionLines(i)
                   rows == RowsOf(lines)
                   authors == {rows[k].user : k \in 1..Len(rows)}
               IN /\ lines[1].label = Shown(labels[i])
                  /\ \A n \in 1..Len(lines) :
                         /\ lines[n].kind = "listHeading" =>
                                lines[n].label = Shown(labels[i])
                         /\ lines[n].kind = "total" => lines[n].total = Len(rows)
                         /\ lines[n].kind = "contributors" =>
                                /\ Len(lines[n].links)
                                       = Cardinality(Range(lines[n].links))
                                /\ {l.user : l \in Range(lines[n].links)} = authors
        /\ pc = "done" =>
               /\ Cardinality(PosSet("tableHeading")) = Len(labels)
               /\ Cardinality(PosSet("contributors")) = Len(labels)

\* a finished report of two sections, the first headed Bug Fix and the
\* second not, each with rows
C5_Witness ==
    /\ pc = "done"
    /\ Len(labels) = 2
    /\ Cardinality(PosSet("tableHeading")) = 2
    /\ out[NthPos("tableHeading", 1)].label = <<"B", "u", "g", " ", "F", "i", "x">>
    /\ out[NthPos("listHeading", 1)].label = <<"B", "u", "g", " ", "F", "i", "x">>
    /\ out[NthPos("tableHeading", 2)].label = <<"D", "o", "c", "s">>
    /\ Len(RowsOf(SectionLines(1))) = 2
    /\ Len(RowsOf(SectionLines(2))) = 1

----------------------------------------------------------------------------
(* C6 *)

\* C6: the body field of the row of an issue whose body is longer than limit
\* ends in the ellipsis marker, and the body field of the row of an issue
\* whose body is not longer than limit ends in it only if the body itself
\* does.  The space bodyBreaker puts after the last word is not counted.
C6_EllipsisIffLonger ==
    (li >= 1 /\ output.kind = "list") =>
        \A i \in 1..Len(CurrentRows) :
            LET text == output.items[i].body.text
                field == RStrip(CurrentRows[i].body)
            IN /\ Len(text) > DefaultLimit => EndsWith(field, Ellipsis)
               /\ (Len(text) <= DefaultLimit /\ EndsWith(field, Ellipsis))
                      => EndsWith(text, Ellipsis)

----------------------------------------------------------------------------
(* C7 *)

\* the words of s are separated by single spaces, with no other whitespace,
\* and none is longer than w
ShortAndPlain(s, w) ==
    /\ s = JoinSpaces(Split(s))
    /\ \A t \in Range(Split(s)) : Len(t) <= w

\* C7 as stated: bodyBreaker returns an already-short string exactly.
C7_NoOpExactly ==
    (sanPc = "ret" /\ ShortAndPlain(sanBody, sanWidth)) => sanResult = sanBody

\* C7, amended: on a string whose words are single-space separated and all
\* of length at most W, bodyBreaker returns the string followed by one
\* space, and the empty string for the empty string.
C7_NoOpButTrailingSpace ==
    (sanPc = "ret" /\ ShortAndPlain(sanBody, sanWidth)) =>
        sanResult = (IF sanBody = <<>> THEN <<>> ELSE sanBody \o <<" ">>)

\* a short string of two words has been sanitized, one word as long as the width
C7_Witness ==
    /\ sanPc = "ret"
    /\ ShortAndPlain(sanBody, sanWidth)
    /\ Len(Split(sanBody)) = 2
    /\ \E t \in Range(Split(sanBody)) : Len(t) = sanWidth

----------------------------------------------------------------------------
(* C8 *)

\* C8: every space-delimited token of bodyBreaker(S, W) is at most W + 2
\* long; the tokens of the result are those of S in the same order and
\* number, a token of length at most W unchanged and a longer one cut to its
\* first W characters followed by two dots.
C8_TokensBounded ==
    sanPc = "ret" =>
        LET ins == Split(sanBody)
            outs == SpaceTokens(sanResult)
        IN /\ Len(outs) = Len(ins)
           /\ \A i \in 1..Len(outs) :
                  /\ Len(outs[i]) <= sanWidth + 2
                  /\ Len(ins[i]) <= sanWidth => outs[i] = ins[i]
                  /\ Len(ins[i]) > sanWidth =>
                         outs[i] = SubSeq(ins[i], 1, sanWidth) \o <<".", ".">>

\* a string with a word longer than the width and a word not longer
C8_Witness ==
    /\ sanPc = "ret"
    /\ sanWidth >= 1
    /\ \E i, j \in 1..Len(Split(sanBody)) :
           /\ i < j
           /\ Len(Split(sanBody)[i]) > sanWidth
           /\ Len(Split(sanBody)[j]) <= sanWidth

----------------------------------------------------------------------------
(* C9 *)

\* generateList has just returned to main
ListPrinted == pc = "loop" /\ li >= 1 /\ out[Len(out)].kind = "contributors"

RankedUsers == [i \in 1..Len(out[Len(out)].links) |-> out[Len(out)].links[i].user]

FirstSeen(user) == CHOOSE i \in 1..Len(c.ins) : c.ins[i] = user

\* C9, amended: generateList emits each contributor of the tally exactly
\* once, in non-increasing order of count (the order among equal counts is
\* the order in which the Counter iterates its keys).
C9_RankedByCount ==
    (pc = "loop" /\ li >= 1) =>
        /\ ListPrinted
        /\ Len(RankedUsers) = Cardinality(DOMAIN c.cnt)
        /\ Range(RankedUsers) = DOMAIN c.cnt
        /\ \A i, j \in 1..Len(RankedUsers) :
               i < j => c.cnt[RankedUsers[i]] >= c.cnt[RankedUsers[j]]

\* C9 as stated: as above, and contributors with equal counts appear in
\* first-seen order.
C9_TiesFirstSeen ==
    (pc = "loop" /\ li >= 1) =>
        /\ C9_RankedByCount
        /\ \A i, j \in 1..Len(RankedUsers) :
               (i < j /\ c.cnt[RankedUsers[i]] = c.cnt[RankedUsers[j]])
                   => FirstSeen(RankedUsers[i]) < FirstSeen(RankedUsers[j])

\* two contributors are listed, the one seen second with the higher count
C9_Witness ==
    /\ ListPrinted
    /\ Len(RankedUsers) = 2
    /\ c.cnt[RankedUsers[1]] > c.cnt[RankedUsers[2]]
    /\ FirstSeen(RankedUsers[1]) = 2

----------------------------------------------------------------------------
(* C10 *)

\* C10: in one pass of generateTable, after k issues have been processed,
\* k rows have been emitted, the counts of the tally add up to k, total is
\* k, and the directory and the tally have the same keys, so that the lookup
\* of generateList never misses; every count line reports as many emitted as
\* returned.
C10_PassInvariant ==
    /\ exc # "KeyError"
    /\ Len(CurrentRows) = idx
    /\ SumOver(c.cnt, DOMAIN c.cnt) = idx
    /\ total = idx
    /\ DOMAIN contributors = DOMAIN c.cnt
    /\ \A p \in PosSet("total") : out[p].total = out[p].returned

\* a pass of three issues by two authors has printed its count line
C10_Witness ==
    /\ pc = "list"
    /\ idx = 3
    /\ Cardinality(DOMAIN c.cnt) = 2
    /\ out[Len(out)].kind = "total"
    /\ out[Len(out)].total = 3

====
